---- MODULE Spec2Model ----
(***************************************************************************)
(* Model of the PDF auto-renamer: the Streamlit service (src/app.py) and   *)
(* the command-line service (src/pdf_renamer.py).  Text is a sequence of   *)
(* one-character strings; a directory is a function from file names to     *)
(* the document stored under that name.                                    *)
(***************************************************************************)
EXTENDS Integers, Sequences, FiniteSets, TLC

VARIABLES
    variant,          \* "app" (src/app.py) or "cli" (src/pdf_renamer.py)
    indir,            \* the documents still at their original path in the input directory
    outdir,           \* the output directory: file name -> document stored there (0: a file that was there before)
    w,                \* per document: the position and the locals of its on_created / process_pdf run
    processed_files,  \* st.session_state.processed_files, the status table of app.py
    tmpfiles,         \* the documents whose temporary image file exists
    arg,              \* harness: the input of the code under test (classifier answer, event, image list)
    outcome,          \* harness: how the call ended
    res,              \* harness: what the code under test gave back
    phase,            \* harness: "in" before the call, "out" after it, "off" when unused
    svc,              \* the services started: session-state references, monitor threads, observers, executors
    upd               \* per calling thread: its update_status_display call in progress

vars ==
    <<variant, indir, outdir, w, processed_files, tmpfiles, arg, outcome, res, phase,
      svc, upd>>

pipeVars == <<variant, indir, outdir, w, processed_files, tmpfiles>>

textVars == <<arg, outcome, res, phase>>

svcVars == <<svc, upd>>

----------------------------------------------------------------------------
(* Characters.  Python 3 `re` on str is Unicode-aware: \w is every Unicode  *)
(* letter or digit and the underscore, \s every Unicode white space.        *)

AsciiLetters ==
    {"a","b","c","d","e","f","g","h","i","j","k","l","m","n","o","p","q","r",
     "s","t","u","v","w","x","y","z","A","B","C","D","E","F","G","H","I","J",
     "K","L","M","N","O","P","Q","R","S","T","U","V","W","X","Y","Z"}

DigitChars == {"0","1","2","3","4","5","6","7","8","9"}

\* "ue" stands for the one character u-umlaut of the prompt's own example
\* name (2024-11-23_AOK_Rueckzahlung_Kndnr1234 written with the umlaut).
NonAsciiLetters == {"ue"}

IsSpace(c) == c \in {" ", "\n"}

IsLineBreak(c) == c = "\n"

IsWord(c) == c \in AsciiLetters \cup DigitChars \cup NonAsciiLetters \cup {"_"}

Min(S) == CHOOSE x \in S : \A y \in S : x <= y

Max(S) == CHOOSE x \in S : \A y \in S : x >= y

Rep(c, n) == [i \in 1..n |-> c]

\* The subsequence of s at the positions in keep, in order.
KeepAt(s, keep) ==
    LET sel == SelectSeq([i \in 1..Len(s) |-> i], LAMBDA i : i \in keep)
    IN  [k \in 1..Len(sel) |-> s[sel[k]]]

\* str.strip(): leading and trailing white space removed.
Strip(s) ==
    LET idx == {i \in 1..Len(s) : ~IsSpace(s[i])}
    IN  IF idx = {} THEN <<>> ELSE SubSeq(s, Min(idx), Max(idx))

\* str.strip('_')
StripUnderscores(s) ==
    LET idx == {i \in 1..Len(s) : s[i] # "_"}
    IN  IF idx = {} THEN <<>> ELSE SubSeq(s, Min(idx), Max(idx))

\* Position i lies in a leftmost match of <[^>]+> : the next ">" at or after
\* i closes a "<" at or before i that is at least two positions before it,
\* with no ">" in between.
InTag(s, i) ==
    LET closes == {j \in i..Len(s) : s[j] = ">"}
    IN  /\ closes # {}
        /\ \E k \in 1..i :
              /\ s[k] = "<"
              /\ k + 2 <= Min(closes)
              /\ \A m \in k..(i - 1) : s[m] # ">"

\* re.sub(r'<[^>]+>', '', s)
StripTags(s) == KeepAt(s, {i \in 1..Len(s) : ~InTag(s, i)})

\* s.splitlines()[0], and "" on the IndexError of an empty s
FirstLine(s) ==
    LET brk == {i \in 1..Len(s) : IsLineBreak(s[i])}
    IN  IF brk = {} THEN s ELSE SubSeq(s, 1, Min(brk) - 1)

\* re.sub(r'\s+', '_', s)
SpacesToUnderscore(s) ==
    LET one == KeepAt(s, {i \in 1..Len(s) : ~(IsSpace(s[i]) /\ i > 1 /\ IsSpace(s[i - 1]))})
    IN  [i \in 1..Len(one) |-> IF IsSpace(one[i]) THEN "_" ELSE one[i]]

\* re.sub(r'[^\w\-]', '', s)
DropUnsafe(s) == SelectSeq(s, LAMBDA c : IsWord(c) \/ c = "-")

\* re.sub(r'_+', '_', s)
CollapseUnderscores(s) ==
    KeepAt(s, {i \in 1..Len(s) : ~(s[i] = "_" /\ i > 1 /\ s[i - 1] = "_")})

UNKNOWN_DOC == <<"U","N","K","N","O","W","N","_","D","O","C">>

UNKNOWN_DOC_API_ERROR == UNKNOWN_DOC \o <<"_","A","P","I","_","E","R","R","O","R">>

MaxNameLen == 70

\* Mutant: the cut is one character late, file_name[:71].
TruncateOffByOne(s) == IF Len(s) <= MaxNameLen + 1 THEN s ELSE SubSeq(s, 1, MaxNameLen + 1)

\* Mutant: the name is not cut at all.
TruncateNot(s) == s

\* file_name[:70]
Truncate(s) == IF Len(s) <= MaxNameLen THEN s ELSE SubSeq(s, 1, MaxNameLen)

\* The sanitization steps of generate_filename_with_openai on the answer text.
Sanitize(answer) ==
    LET output_text == Strip(StripTags(Strip(answer)))
        first       == Strip(FirstLine(output_text))
        cleaned     == StripUnderscores(CollapseUnderscores(DropUnsafe(
                           SpacesToUnderscore(first))))
    IN  IF first = <<>> THEN UNKNOWN_DOC
        ELSE IF cleaned = <<>> THEN UNKNOWN_DOC
        ELSE Truncate(cleaned)

\* How a chat.completions.create call can end: "answer" (a text comes back),
\* "none" (a response whose content is None), "status" (an APIStatusError: an
\* APIError that carries status_code and response), "conn" (an
\* APIConnectionError or APITimeoutError: an APIError without status_code),
\* "other" (any other exception).
CallOutcomes == {"answer", "none", "status", "conn", "other"}

\* The value generate_filename_with_openai returns, or RAISED when an
\* exception leaves it: the APIError handler formats e.status_code, which
\* raises AttributeError on an APIError that has none.
RAISED == <<"!">>

GenerateFilename(how, answer) ==
    CASE how = "answer" -> Sanitize(answer)
      [] how = "none"   -> UNKNOWN_DOC
      [] how = "status" -> UNKNOWN_DOC_API_ERROR
      [] how = "conn"   -> RAISED
      [] how = "other"  -> UNKNOWN_DOC

----------------------------------------------------------------------------
(* Text harness: the naming code applied to bounded classifier answers.     *)

MaxTail == 3

Alphabet == {"a", "ue", "1", "_", "-", " ", "\n", "<", ">", "."}

RECURSIVE TextsUpTo(_)
TextsUpTo(n) ==
    IF n = 0 THEN {<<>>}
    ELSE LET shorter == TextsUpTo(n - 1)
         IN  shorter \cup {Append(t, c) : t \in shorter, c \in Alphabet}

\* Answers: a run of letters (none, or one that brings the name to the
\* truncation length) followed by every short text.
PadLens == {0, MaxNameLen - 1}

Answers == {Rep("a", k) \o t : k \in PadLens, t \in TextsUpTo(MaxTail)}

TextInit ==
    /\ variant \in {"app", "cli"}
    /\ indir = {}
    /\ outdir = <<>>
    /\ w = <<>>
    /\ processed_files = <<>>
    /\ tmpfiles = {}
    /\ arg \in Answers
    /\ outcome = "unset"
    /\ res = <<>>
    /\ phase = "in"
    /\ svc = <<>>
    /\ upd = <<>>

CallNaming ==
    /\ phase = "in"
    /\ \E how \in CallOutcomes :
          /\ outcome' = how
          /\ res' = GenerateFilename(how, arg)
    /\ phase' = "out"
    /\ UNCHANGED <<arg, pipeVars, svcVars>>

TextNext == CallNaming

TextSpec == TextInit /\ [][TextNext]_vars

----------------------------------------------------------------------------
(* File names.                                                              *)

NDocs == 2

Docs == 1..NDocs

RECURSIVE Decimal(_)
\* str(n) of the f-string
Decimal(n) ==
    LET d == <<"0","1","2","3","4","5","6","7","8","9">>[(n % 10) + 1]
    IN  IF n < 10 THEN <<d>> ELSE Append(Decimal(n \div 10), d)

PdfExt == <<".","p","d","f">>

\* os.path.basename(pdf_path): document d was created as d<d>.pdf
OrigName(d) == <<"d">> \o Decimal(d) \o PdfExt

\* os.path.basename(image_path) of the NamedTemporaryFile made for d
TempName(d) == <<"t","m","p">> \o Decimal(d) \o <<".","j","p","g">>

\* f"{base_name}.pdf"
PlainName(base) == base \o PdfExt

\* Mutant: the suffix is one behind the counter, so the first copy is _0.
NumberedFromZero(base, counter) == base \o <<"_">> \o Decimal(counter - 1) \o PdfExt

\* f"{base_name}_{counter}.pdf"
NumberedName(base, counter) == base \o <<"_">> \o Decimal(counter) \o PdfExt

\* f"Fehler_doc_{os.path.basename(pdf_path)}"
FallbackName(d) == <<"F","e","h","l","e","r","_","d","o","c","_">> \o OrigName(d)

MaxFileLen == 240

ExtLen == 4

\* base_name[:240 - 4]
TruncateBase(base) ==
    IF Len(base) <= MaxFileLen - ExtLen THEN base ELSE SubSeq(base, 1, MaxFileLen - ExtLen)

\* new_name[:240]
TruncateName(name) == IF Len(name) <= MaxFileLen THEN name ELSE SubSeq(name, 1, MaxFileLen)

\* os.path.exists(new_path)
PathExists(dir, name) == name \in DOMAIN dir

\* shutil.move(src, dst) that succeeds: os.rename (POSIX), or copy2 then unlink
\* (Windows, or across file systems); either replaces a file already at dst.
MoveInto(dir, name, d) == [n \in DOMAIN dir \cup {name} |-> IF n = name THEN d ELSE dir[n]]

----------------------------------------------------------------------------
(* The status table.                                                        *)

\* update_status_display(original_name, new_name, status_message); the time
\* stamp is left out.
UpdateStatusDisplay(table, original_name, new_name, status_message) ==
    LET hits == {i \in 1..Len(table) : table[i].orig = original_name}
    IN  IF hits # {}
        THEN [table EXCEPT ![Min(hits)] =
                 [orig   |-> original_name,
                  new    |-> IF new_name # <<>> THEN new_name ELSE table[Min(hits)].new,
                  status |-> status_message]]
        ELSE Append(table, [orig |-> original_name, new |-> new_name, status |-> status_message])

\* A sequence of reports <<key, new name, status>> made one after the other.
RECURSIVE Reports(_, _)
Reports(table, rs) ==
    IF rs = <<>> THEN table
    ELSE Reports(UpdateStatusDisplay(table, rs[1][1], rs[1][2], rs[1][3]), Tail(rs))

\* self.status_update_callback exists in app.py only.
Reported(rs) == IF variant = "app" THEN Reports(processed_files, rs) ELSE processed_files

----------------------------------------------------------------------------
(* on_created and process_pdf, one run per document.                        *)

MaxWorkers == 4

InFlight == {"extract", "store", "vision", "name", "probe", "move", "fallback"}

Running == {d \in Docs : w[d].pc \in InFlight}

\* Mutant: the pool starts a thread for every task.
FreeSlotAlways(busy) == TRUE

\* ThreadPoolExecutor(max_workers=4): a thread is free for a queued task.
FreeSlot(busy) == Cardinality(busy) < MaxWorkers

\* The classifier answers of the naming call in the pipeline: two that
\* sanitize to the same name, the name a numbered copy of it would get, an
\* empty answer, and one longer than every length limit.
PipeAnswers ==
    {<<"a">>, <<" ", "a", ".">>, <<"a", " ", "1">>, <<>>, Rep("a", MaxFileLen + 1)}

NoFile == <<>>

InitLocals ==
    [pc        |-> "new",
     vision    |-> "",        \* vision_result
     content   |-> "",        \* what the naming call is made on
     api_errors |-> 0,        \* the classification calls of the run that raised a service error
     called    |-> FALSE,     \* a classification call has been made
     filename  |-> NoFile,    \* the name generate_filename_with_openai returned
     base      |-> NoFile,    \* base_name, or base_name_truncated in the second loop
     new_name  |-> NoFile,
     counter   |-> 0,
     truncated |-> FALSE,     \* inside the len(new_name) > 240 branch of app.py
     moves     |-> <<>>,      \* the shutil.move calls made: "moved" or "failed" each
     terminal  |-> ""]        \* how the run ended

\* How often monitoring is started: the Start clicks of app.py, the one
\* main() of pdf_renamer.py.
MaxStarts == 2

Services == 1..MaxStarts

\* The state after the first start, the monitor thread in its sleep loop:
\* service s is the thread running start_monitoring_service (main in
\* pdf_renamer.py) with the FileHandler and the Observer it made.
\* observer_ref and handler_ref are st.session_state.observer and
\* st.session_state.file_event_handler (0: None); in pdf_renamer.py they
\* are the locals observer and event_handler of main.
InitService ==
    [monitoring_active |-> TRUE,
     starts       |-> 1,
     observer_ref |-> 1,
     handler_ref  |-> 1,
     thread   |-> [s \in Services |-> IF s = 1 THEN "loop" ELSE "none"],
     observer |-> [s \in Services |-> IF s = 1 THEN "running" ELSE "none"],
     executor |-> [s \in Services |-> IF s = 1 THEN "open" ELSE "none"],
     waits    |-> [s \in Services |-> 0],     \* the executor the thread's shutdown(wait=True) is called on
     owner    |-> [d \in Docs |-> 0]]         \* the service whose executor was given the document

\* The observers whose thread dispatches creation events.
Watching == {s \in Services : svc.observer[s] = "running"}

\* The documents submitted to the executor of service s and not finished.
Unfinished(s) == {d \in Docs : svc.owner[d] = s /\ w[d].pc # "done"}

\* Files that may be in the output directory before the service starts.
OldFiles == {PlainName(<<"a">>), NumberedName(<<"a">>, 1)}

Init ==
    /\ variant \in {"app", "cli"}
    /\ indir = Docs
    /\ \E old \in SUBSET OldFiles : outdir = [n \in old |-> 0]
    /\ w = [d \in Docs |-> InitLocals]
    /\ processed_files = <<>>
    /\ tmpfiles = {}
    /\ arg = <<>>
    /\ outcome = "unset"
    /\ res = <<>>
    /\ phase = "off"
    /\ svc = InitService
    /\ upd = <<>>

Set(d, fields) == w' = [w EXCEPT ![d] = fields @@ w[d]]

\* process_pdf returns: its locals are gone; what stays is how it ended,
\* the calls it made and what `kept` names.
Return(d, how, kept) ==
    Set(d, kept @@ [pc |-> "done", terminal |-> how]
                @@ [f \in {"called", "moves"} |-> w[d][f]] @@ InitLocals)

\* Mutant: the handler reports the error and the run goes on to naming.
FailedWithoutReturn(d, exception, kept) ==
    /\ Set(d, [pc |-> "name", terminal |-> exception])
    /\ processed_files' = Reported(<< <<OrigName(d), <<>>, exception>> >>)

\* The error path of the outer try: app.py reports "Error: " and the text
\* of the exception, pdf_renamer.py logs the exception; both return without
\* moving anything.
FailedWith(d, exception, kept) ==
    /\ Return(d, exception, kept)
    /\ processed_files' = Reported(<< <<OrigName(d), <<>>, exception>> >>)

UpperLetters ==
    <<"A","B","C","D","E","F","G","H","I","J","K","L","M","N","O","P","Q","R",
      "S","T","U","V","W","X","Y","Z">>

LowerLetters ==
    <<"a","b","c","d","e","f","g","h","i","j","k","l","m","n","o","p","q","r",
      "s","t","u","v","w","x","y","z">>

\* str.lower(), character by character
ToLower(c) ==
    LET at == {i \in 1..Len(UpperLetters) : UpperLetters[i] = c}
    IN  IF at = {} THEN c ELSE LowerLetters[Min(at)]

Lower(s) == [i \in 1..Len(s) |-> ToLower(s[i])]

\* str.endswith(suffix)
EndsWith(s, suffix) ==
    /\ Len(s) >= Len(suffix)
    /\ SubSeq(s, Len(s) - Len(suffix) + 1, Len(s)) = suffix

\* os.path.basename(path): what follows the last separator
Basename(path) ==
    LET seps == {i \in 1..Len(path) : path[i] = "/"}
    IN  IF seps = {} THEN path ELSE SubSeq(path, Max(seps) + 1, Len(path))

\* Mutant: the extension is compared as it is written.
IsPdfPathCaseSensitive(path) == EndsWith(path, PdfExt)

\* event.src_path.lower().endswith('.pdf')
IsPdfPath(path) == EndsWith(Lower(path), PdfExt)

\* on_created goes on to executor.submit for this event.
Submits(event) == ~event.is_directory /\ IsPdfPath(event.src_path)

\* The reports on_created makes for an event.
OnCreatedReports(event) ==
    IF Submits(event)
    THEN << <<Basename(event.src_path), <<>>, "Queued for processing">> >>
    ELSE <<>>

\* The creation event of document d.
EventOf(d) == [is_directory |-> FALSE, src_path |-> OrigName(d)]

\* on_created for the creation event of document d
OnCreated(d) ==
    /\ w[d].pc = "new"
    /\ Submits(EventOf(d))
    /\ \E s \in Watching :
          /\ svc.executor[s] = "open"
          /\ svc' = [svc EXCEPT !.owner[d] = s]
    /\ Set(d, [pc |-> "queued"])
    /\ processed_files' = Reported(OnCreatedReports(EventOf(d)))
    /\ UNCHANGED <<variant, indir, outdir, tmpfiles, textVars, upd>>

\* A pool thread takes the task: process_pdf up to the try block.  The
\* client is never None here: the Start handler starts no service without
\* an API key.
Begin(d) ==
    /\ w[d].pc = "queued"
    /\ FreeSlot(Running)
    /\ Set(d, [pc |-> "extract"])
    /\ processed_files' = Reported(<< <<OrigName(d), <<>>, "Processing...">> >>)
    /\ UNCHANGED <<variant, indir, outdir, tmpfiles, textVars, svcVars>>

\* What the naming call is made on once the image path is over.  app.py
\* uses the vision text, else the page text, else "No content available";
\* pdf_renamer.py hands vision_result on whatever it holds.
ContentAfter(vision, text_empty) ==
    IF variant = "cli"
    THEN CASE vision = "LABEL" -> "vision"
           [] vision = "EMPTY" -> "empty"
           [] OTHER            -> "marker"
    ELSE CASE vision = "LABEL" -> "vision"
           [] vision = "EMPTY" -> "no_content"
           [] OTHER            -> IF text_empty THEN "no_content" ELSE "page_text"

\* The "Processing issue" report of app.py after the with block.
IssueReports(d, vision) ==
    IF vision \in {"NO_VISION_DATA", "IMAGE_STORE_FAILED", "NO_IMAGE_FOUND"}
    THEN << <<OrigName(d), <<>>, "Processing issue">> >>
    ELSE <<>>

\* Mutant: a run whose page has no image waits for one.
ExtractWaitsForImage(d) ==
    /\ w[d].pc = "extract"
    /\ \E ex \in {"open_error", "no_image", "image"} :
          CASE ex = "open_error" -> FailedWith(d, "Error: open", <<>>)
            [] ex = "no_image"   -> Set(d, [pc |-> "wait"]) /\ UNCHANGED processed_files
            [] ex = "image"      -> Set(d, [pc |-> "store"]) /\ UNCHANGED processed_files
    /\ UNCHANGED <<variant, indir, outdir, tmpfiles, textVars, svcVars>>

\* fitz.open, load_page(0), get_text, get_images and the choice of the best
\* candidate.
Extract(d) ==
    /\ w[d].pc = "extract"
    /\ \E ex \in {"open_error", "no_image", "image"}, text_empty \in BOOLEAN :
          CASE ex = "open_error" ->
                  /\ FailedWith(d, "Error: open", <<>>)
             [] ex = "no_image" ->
                  LET vision == IF variant = "app" THEN "NO_IMAGE_FOUND" ELSE "NO_VISION_DATA"
                  IN  /\ Set(d, [pc |-> "name", vision |-> vision,
                                  content |-> ContentAfter(vision, text_empty)])
                      /\ processed_files' =
                            Reported(<< <<OrigName(d), <<>>, "No usable image found">> >>)
             [] ex = "image" ->
                  /\ Set(d, [pc |-> "store"])
                  /\ UNCHANGED processed_files
    /\ UNCHANGED <<variant, indir, outdir, tmpfiles, textVars, svcVars>>

\* How store_image can end: the file is written and its path returned
\* ("stored"); NamedTemporaryFile raises and no file is made
\* ("create_failed"); tmp.write raises after the file was made with
\* delete=False, so the file stays and "" is returned ("write_failed").
StoreOutcomes == {"stored", "create_failed", "write_failed"}

\* store_image(best_candidate["image_bytes"]) and the branch on its result
StoreImage(d) ==
    /\ w[d].pc = "store"
    /\ \E stored \in StoreOutcomes, text_empty \in BOOLEAN :
          IF stored = "stored"
          THEN /\ Set(d, [pc |-> "vision"])
               /\ tmpfiles' = tmpfiles \cup {d}
               /\ UNCHANGED processed_files
          ELSE LET vision == IF variant = "app" THEN "IMAGE_STORE_FAILED" ELSE "NO_VISION_DATA"
               IN  /\ Set(d, [pc |-> "name", vision |-> vision,
                               content |-> ContentAfter(vision, text_empty)])
                   /\ processed_files' =
                         Reported(<< <<OrigName(d), <<>>, "Error: Failed to store image">> >>)
                   /\ tmpfiles' = IF stored = "write_failed" THEN tmpfiles \cup {d} ELSE tmpfiles
    /\ UNCHANGED <<variant, indir, outdir, textVars, svcVars>>

\* What process_image_with_openai returns for each way its call can end
\* ("empty": an answer of no characters); RAISED when the APIError handler
\* itself raises on e.status_code.
VisionResult(how) ==
    CASE how = "answer" -> "LABEL"
      [] how = "empty"  -> "EMPTY"
      [] how = "none"   -> "Vision Analysis Failed"
      [] how = "status" -> "Vision Analysis Failed due to API Error"
      [] how = "conn"   -> "RAISED"
      [] how = "other"  -> "Vision Analysis Failed"

\* The status key process_image_with_openai reports under: base_image_filename.
VisionKey(d) == TempName(d)

\* The reports process_image_with_openai makes in its handlers.
VisionReports(d, how) ==
    CASE how = "status"            -> << <<VisionKey(d), <<>>, "Error: OpenAI API (Vision)">> >>
      [] how \in {"none", "other"} -> << <<VisionKey(d), <<>>, "Error: Vision processing">> >>
      [] OTHER                     -> <<>>

\* process_image_with_openai and the finally block that removes the image.
Vision(d) ==
    /\ w[d].pc = "vision"
    /\ \E how \in CallOutcomes \cup {"empty"}, text_empty \in BOOLEAN :
          LET vision == VisionResult(how)
          IN  IF vision = "RAISED"
              THEN FailedWith(d, "Error: no attribute status_code",
                              [called |-> TRUE, api_errors |-> 1])
              ELSE /\ Set(d, [pc |-> "name", called |-> TRUE, vision |-> vision,
                              api_errors |-> IF how = "status" THEN 1 ELSE 0,
                              content |-> ContentAfter(vision, text_empty)])
                   /\ processed_files' = Reported(VisionReports(d, how))
    /\ \E removed \in BOOLEAN :
          tmpfiles' = IF removed THEN tmpfiles \ {d} ELSE tmpfiles
    /\ UNCHANGED <<variant, indir, outdir, textVars, svcVars>>

\* The "Naming failed" report of app.py.
NamingReports(d, filename) ==
    IF filename \in {UNKNOWN_DOC, UNKNOWN_DOC_API_ERROR}
    THEN << <<OrigName(d), filename, "Naming failed">> >>
    ELSE <<>>

\* Every value the naming call of the pipeline can give back.
NamingResults == {GenerateFilename(how, answer) : how \in CallOutcomes, answer \in PipeAnswers}

\* The values the naming call of the pipeline can give back, by the way its
\* chat.completions.create call ends.
NamingTable == [how \in CallOutcomes |-> {GenerateFilename(how, answer) : answer \in PipeAnswers}]

\* The service errors of a classification call: every APIError.
ServiceErrors == {"status", "conn"}

\* The "Processing issue" report, generate_filename_with_openai(content) and
\* the first candidate path.  An exception that leaves the call reaches the
\* outer handler in app.py; in pdf_renamer.py the call is outside every try,
\* so the task dies with it.
Name(d) ==
    /\ w[d].pc = "name"
    /\ \E how \in CallOutcomes : \E filename \in NamingTable[how] :
          LET api_errors == w[d].api_errors + (IF how \in ServiceErrors THEN 1 ELSE 0)
          IN  IF filename = RAISED
              THEN /\ Return(d, IF variant = "app" THEN "Error: no attribute status_code"
                                                   ELSE "raised",
                             [called |-> TRUE, api_errors |-> api_errors])
                   /\ processed_files' =
                         Reported(IssueReports(d, w[d].vision)
                                  \o << <<OrigName(d), <<>>, "Error: no attribute status_code">> >>)
              ELSE /\ Set(d, [pc |-> "probe", called |-> TRUE, content |-> "", vision |-> "",
                              api_errors |-> api_errors,
                              filename |-> filename, base |-> filename,
                              new_name |-> PlainName(filename), counter |-> 1])
                   /\ processed_files' =
                         Reported(IssueReports(d, w[d].vision) \o NamingReports(d, filename))
    /\ UNCHANGED <<variant, indir, outdir, tmpfiles, textVars, svcVars>>

\* Mutant: `if` in place of `while`, the numbered name is not tested again.
ProbeOnce(d) ==
    /\ w[d].pc = "probe"
    /\ IF PathExists(outdir, w[d].new_name)
       THEN Set(d, [pc |-> "move", new_name |-> NumberedName(w[d].base, w[d].counter),
                    counter |-> w[d].counter + 1])
       ELSE Set(d, [pc |-> "move"])
    /\ UNCHANGED <<variant, indir, outdir, processed_files, tmpfiles, textVars, svcVars>>

\* One test of `while os.path.exists(new_path)`; when the path is free, the
\* length rule: app.py starts the loop again on the truncated base,
\* pdf_renamer.py cuts the name.
Probe(d) ==
    /\ w[d].pc = "probe"
    /\ IF PathExists(outdir, w[d].new_name)
       THEN Set(d, [new_name |-> NumberedName(w[d].base, w[d].counter),
                    counter  |-> w[d].counter + 1])
       ELSE IF variant = "app"
            THEN IF ~w[d].truncated /\ Len(w[d].new_name) > MaxFileLen
                 THEN Set(d, [base      |-> TruncateBase(w[d].base),
                              new_name  |-> PlainName(TruncateBase(w[d].base)),
                              counter   |-> 1,
                              truncated |-> TRUE])
                 ELSE Set(d, [pc |-> "move"])
            ELSE Set(d, [pc |-> "move", new_name |-> TruncateName(w[d].new_name)])
    /\ UNCHANGED <<variant, indir, outdir, processed_files, tmpfiles, textVars, svcVars>>

\* Mutant: an exception of shutil.move is swallowed and Success is reported.
MoveUnchecked(d) ==
    /\ w[d].pc = "move"
    /\ \E ok \in BOOLEAN :
          /\ IF ok
             THEN outdir' = MoveInto(outdir, w[d].new_name, d) /\ indir' = indir \ {d}
             ELSE UNCHANGED <<indir, outdir>>
          /\ Return(d, "Success",
                    [moves |-> Append(w[d].moves, IF ok THEN "moved" ELSE "failed"),
                     filename |-> w[d].filename, new_name |-> w[d].new_name,
                     counter |-> w[d].counter])
          /\ processed_files' = Reported(<< <<OrigName(d), w[d].new_name, "Success">> >>)
    /\ UNCHANGED <<variant, tmpfiles, textVars, svcVars>>

\* shutil.move(pdf_path, new_path).  A move that raises leaves both
\* directories as they were.
Move(d) ==
    /\ w[d].pc = "move"
    /\ \E ok \in BOOLEAN :
          IF ok
          THEN /\ outdir' = MoveInto(outdir, w[d].new_name, d)
               /\ indir' = indir \ {d}
               /\ Return(d, "Success",
                         [moves |-> Append(w[d].moves, "moved"), filename |-> w[d].filename,
                          new_name |-> w[d].new_name, counter |-> w[d].counter])
               /\ processed_files' = Reported(<< <<OrigName(d), w[d].new_name, "Success">> >>)
          ELSE /\ UNCHANGED <<indir, outdir>>
               /\ IF variant = "app"
                  THEN FailedWith(d, "Error: move", [moves |-> Append(w[d].moves, "failed")])
                  ELSE /\ Set(d, [pc |-> "fallback", moves |-> Append(w[d].moves, "failed")])
                       /\ UNCHANGED processed_files
    /\ UNCHANGED <<variant, tmpfiles, textVars, svcVars>>

\* pdf_renamer.py: shutil.move(pdf_path, fallback_path) after a failed move;
\* logging.critical when that fails too.
Fallback(d) ==
    /\ w[d].pc = "fallback"
    /\ \E ok \in BOOLEAN :
          IF ok
          THEN /\ outdir' = MoveInto(outdir, FallbackName(d), d)
               /\ indir' = indir \ {d}
               /\ Return(d, "fallback", [moves |-> Append(w[d].moves, "moved")])
          ELSE /\ UNCHANGED <<indir, outdir>>
               /\ Return(d, "critical", [moves |-> Append(w[d].moves, "failed")])
    /\ UNCHANGED <<variant, processed_files, tmpfiles, textVars, svcVars>>

Next ==
    \E d \in Docs :
        \/ OnCreated(d)
        \/ Begin(d)
        \/ Extract(d)
        \/ StoreImage(d)
        \/ Vision(d)
        \/ Name(d)
        \/ Probe(d)
        \/ Move(d)
        \/ Fallback(d)

Spec == Init /\ [][Next]_vars

----------------------------------------------------------------------------
(* Event harness: on_created applied to bounded creation events.            *)

MaxPathLen == 5

PathAlphabet == {".", "p", "P", "d", "f", "/"}

RECURSIVE PathsUpTo(_)
PathsUpTo(n) ==
    IF n = 0 THEN {<<>>}
    ELSE LET shorter == PathsUpTo(n - 1)
         IN  shorter \cup {Append(t, c) : t \in shorter, c \in PathAlphabet}

Events == [is_directory : BOOLEAN, src_path : PathsUpTo(MaxPathLen)]

EventInit ==
    /\ variant \in {"app", "cli"}
    /\ indir = {}
    /\ outdir = <<>>
    /\ w = <<>>
    /\ processed_files = <<>>
    /\ tmpfiles = {}
    /\ arg \in Events
    /\ outcome = "unset"
    /\ res = <<>>
    /\ phase = "in"
    /\ svc = <<>>
    /\ upd = <<>>

\* on_created(event); res is the list of paths handed to executor.submit.
HandleEvent ==
    /\ phase = "in"
    /\ res' = IF Submits(arg) THEN <<arg.src_path>> ELSE <<>>
    /\ processed_files' = Reported(OnCreatedReports(arg))
    /\ outcome' = "handled"
    /\ phase' = "out"
    /\ UNCHANGED <<arg, variant, indir, outdir, w, tmpfiles, svcVars>>

EventNext == HandleEvent

EventSpec == EventInit /\ [][EventNext]_vars

----------------------------------------------------------------------------
(* Image harness: the choice of the best candidate among the images of the  *)
(* first page.  An image is the dict doc.extract_image gives: a record      *)
(* that may lack the width or the height key.                               *)

\* base_image.get("width", 0), base_image.get("height", 0)
Get(base_image, key) == IF key \in DOMAIN base_image THEN base_image[key] ELSE 0

\* area = width * height
Area(base_image) == Get(base_image, "width") * Get(base_image, "height")

\* Mutant: an image of the same area replaces the candidate.
NotSmaller(area, best_area) == area >= best_area

\* area > best_candidate["area"]
Larger(area, best_area) == area > best_area

RECURSIVE BestFrom(_, _, _)
\* The loop over images from position i on; best is 0 (None) or the position
\* of the candidate kept so far.
BestFrom(images, i, best) ==
    IF i > Len(images) THEN best
    ELSE IF best = 0 \/ Larger(Area(images[i]), Area(images[best]))
         THEN BestFrom(images, i + 1, i)
         ELSE BestFrom(images, i + 1, best)

\* best_candidate after the loop: the position of the image kept, 0 for None
BestCandidate(images) == BestFrom(images, 1, 0)

MaxImages == 2

Sizes == {0, 1, 2, 6, 8}

Images ==
    [image : {"bytes"}, width : Sizes, height : Sizes]
        \cup [image : {"bytes"}, width : Sizes]
        \cup [image : {"bytes"}, height : Sizes]
        \cup [image : {"bytes"}]

ImageLists == UNION {[1..n -> Images] : n \in 0..MaxImages}

ImageInit ==
    /\ variant \in {"app", "cli"}
    /\ indir = {}
    /\ outdir = <<>>
    /\ w = <<>>
    /\ processed_files = <<>>
    /\ tmpfiles = {}
    /\ arg \in ImageLists
    /\ outcome = "unset"
    /\ res = <<>>
    /\ phase = "in"
    /\ svc = <<>>
    /\ upd = <<>>

\* The loop of process_pdf over first_page.get_images(full=True); res holds
\* the position of the image kept, if one is kept.
PickImage ==
    /\ phase = "in"
    /\ res' = IF BestCandidate(arg) = 0 THEN <<>> ELSE <<BestCandidate(arg)>>
    /\ outcome' = "picked"
    /\ phase' = "out"
    /\ UNCHANGED <<arg, pipeVars, svcVars>>

ImageNext == PickImage

ImageSpec == ImageInit /\ [][ImageNext]_vars

----------------------------------------------------------------------------
(* One call after the other: document d is created once every earlier one   *)
(* has been dealt with.  The temporary directory works in this scenario: a  *)
(* temporary image is written whole or not made, and os.remove removes it.  *)

Turn(d) == \A e \in Docs : e < d => w[e].pc = "done"

\* Temporary images exist only between store_image and the finally block.
TempFilesWork == tmpfiles \subseteq {d \in Docs : w[d].pc = "vision"}

SeqNext ==
    \E d \in Docs :
        \/ Turn(d) /\ OnCreated(d)
        \/ Turn(d) /\ Begin(d)
        \/ Turn(d) /\ Extract(d)
        \/ Turn(d) /\ StoreImage(d) /\ TempFilesWork'
        \/ Turn(d) /\ Vision(d) /\ TempFilesWork'
        \/ Turn(d) /\ Name(d)
        \/ Turn(d) /\ Probe(d)
        \/ Turn(d) /\ Move(d)
        \/ Turn(d) /\ Fallback(d)

SeqSpec == Init /\ [][SeqNext]_vars

----------------------------------------------------------------------------
(* One run: the service sees the creation of one document.                  *)

FirstDoc == Min(Docs)

OneNext ==
    \/ OnCreated(FirstDoc)
    \/ Begin(FirstDoc)
    \/ Extract(FirstDoc)
    \/ StoreImage(FirstDoc)
    \/ Vision(FirstDoc)
    \/ Name(FirstDoc)
    \/ Probe(FirstDoc)
    \/ Move(FirstDoc)
    \/ Fallback(FirstDoc)

OneSpec == Init /\ [][OneNext]_vars

\* The pool runs the task it was given, and every call the run makes returns
\* or raises: a step that can be taken is taken.
OneLive == OneSpec /\ WF_vars(OneNext)

----------------------------------------------------------------------------
(* One run of pdf_renamer.py whose output directory may hold, next to the   *)
(* old files, the file an earlier failed move of a document of the same     *)
(* name was put under.                                                      *)

LeftoverFiles == OldFiles \cup {FallbackName(FirstDoc)}

LeftoverInit ==
    /\ variant = "cli"
    /\ indir = Docs
    /\ \E old \in SUBSET LeftoverFiles : outdir = [n \in old |-> 0]
    /\ w = [d \in Docs |-> InitLocals]
    /\ processed_files = <<>>
    /\ tmpfiles = {}
    /\ arg = <<>>
    /\ outcome = "unset"
    /\ res = <<>>
    /\ phase = "off"
    /\ svc = InitService
    /\ upd = <<>>

LeftoverSpec == LeftoverInit /\ [][OneNext]_vars

----------------------------------------------------------------------------
(* Starting and stopping the service.  The monitor thread of service s runs *)
(* start_monitoring_service (main in pdf_renamer.py); its position is       *)
(* svc.thread[s]: "setup", "loop", "stop", "join", "shutdown", "wait",      *)
(* "release", then "done" or "failed".                                      *)

SetService(fields) == svc' = fields @@ svc

\* The monitor thread of service s is not started, is ended, or is held up
\* in executor.shutdown(wait=True) by a task that has not finished.
Settled(s) ==
    \/ svc.thread[s] \in {"none", "done", "failed"}
    \/ svc.thread[s] = "wait" /\ Unfinished(svc.waits[s]) # {}

\* The Stop button of app.py.  The handler then waits up to ten seconds for
\* the monitor thread.
StopClick ==
    /\ variant = "app"
    /\ svc.monitoring_active
    /\ SetService([monitoring_active |-> FALSE])
    /\ UNCHANGED <<pipeVars, textVars, upd>>

\* What the Start handler sets when it starts monitoring: the flag, and a
\* new monitor thread that is about to run start_monitoring_service.
StartMonitoring ==
    [monitoring_active |-> TRUE,
     starts |-> svc.starts + 1,
     thread |-> [svc.thread EXCEPT ![svc.starts + 1] = "setup"]]

\* The Start button of app.py, shown while monitoring_active is false, with
\* an API key and both directories in place.  The
\* Stop handler has returned by then: within the ten seconds of its join
\* the earlier monitor thread has left its one-second sleep loop and
\* stopped its observer, and has ended unless unfinished tasks hold it up.
StartClick ==
    /\ variant = "app"
    /\ ~svc.monitoring_active
    /\ svc.starts < MaxStarts
    /\ \A s \in Services : Settled(s)
    /\ SetService(StartMonitoring)
    /\ processed_files' = <<>>
    /\ UNCHANGED <<variant, indir, outdir, w, tmpfiles, textVars, upd>>

\* The monitor thread makes its FileHandler and its Observer and starts the
\* observer.
Setup(s) ==
    /\ svc.thread[s] = "setup"
    /\ SetService([handler_ref  |-> s,
                   observer_ref |-> s,
                   executor |-> [svc.executor EXCEPT ![s] = "open"],
                   observer |-> [svc.observer EXCEPT ![s] = "running"],
                   thread   |-> [svc.thread EXCEPT ![s] = "loop"]])
    /\ UNCHANGED <<pipeVars, textVars, upd>>

\* The sleep loop ends: monitoring_active is false in app.py, Ctrl-C
\* arrives in pdf_renamer.py.
LoopExit(s) ==
    /\ svc.thread[s] = "loop"
    /\ variant = "app" => ~svc.monitoring_active
    /\ SetService([thread |-> [svc.thread EXCEPT ![s] = "stop"]])
    /\ UNCHANGED <<pipeVars, textVars, upd>>

\* observer.stop(): in app.py on the observer the session state names, if
\* it names one that is alive.
ObserverStop(s) ==
    /\ svc.thread[s] = "stop"
    /\ LET o == svc.observer_ref
       IN  IF o # 0 /\ svc.observer[o] = "running"
           THEN SetService([observer |-> [svc.observer EXCEPT ![o] = "stopped"],
                            thread   |-> [svc.thread EXCEPT ![s] = "join"]])
           ELSE SetService([thread |-> [svc.thread EXCEPT ![s] = "shutdown"]])
    /\ UNCHANGED <<pipeVars, textVars, upd>>

\* observer.join(); None has no join, the thread ends with the exception.
ObserverJoin(s) ==
    /\ svc.thread[s] = "join"
    /\ LET o == svc.observer_ref
       IN  IF o # 0
           THEN SetService([observer |-> [svc.observer EXCEPT ![o] = "joined"],
                            thread   |-> [svc.thread EXCEPT ![s] = "shutdown"]])
           ELSE SetService([thread |-> [svc.thread EXCEPT ![s] = "failed"]])
    /\ UNCHANGED <<pipeVars, textVars, upd>>

\* executor.shutdown(wait=True) is called: the executor takes no new task.
\* In app.py it is the executor of the handler the session state names, if
\* it names one.
ShutdownCall(s) ==
    /\ svc.thread[s] = "shutdown"
    /\ LET h == svc.handler_ref
       IN  IF h # 0
           THEN SetService([executor |-> [svc.executor EXCEPT ![h] = "shutdown"],
                            waits    |-> [svc.waits EXCEPT ![s] = h],
                            thread   |-> [svc.thread EXCEPT ![s] = "wait"]])
           ELSE SetService([thread |-> [svc.thread EXCEPT ![s] = "release"]])
    /\ UNCHANGED <<pipeVars, textVars, upd>>

\* executor.shutdown(wait=True) returns: every task given to the executor
\* has run.
ShutdownReturns(s) ==
    /\ svc.thread[s] = "wait"
    /\ Unfinished(svc.waits[s]) = {}
    /\ SetService([thread |-> [svc.thread EXCEPT ![s] = "release"]])
    /\ UNCHANGED <<pipeVars, textVars, upd>>

\* app.py sets the observer and the handler of the session state to None;
\* main of pdf_renamer.py returns.
Release(s) ==
    /\ svc.thread[s] = "release"
    /\ SetService([observer_ref |-> 0,
                   handler_ref  |-> 0,
                   thread |-> [svc.thread EXCEPT ![s] = "done"]])
    /\ UNCHANGED <<pipeVars, textVars, upd>>

\* The service with its documents handled one after the other.
ServiceNext ==
    \/ SeqNext
    \/ StopClick
    \/ StartClick
    \/ \E s \in Services :
          \/ Setup(s)
          \/ LoopExit(s)
          \/ ObserverStop(s)
          \/ ObserverJoin(s)
          \/ ShutdownCall(s)
          \/ ShutdownReturns(s)
          \/ Release(s)

ServiceSpec == Init /\ [][ServiceNext]_vars

----------------------------------------------------------------------------
(* Pool harness: more creation events than the executor has threads.  A run *)
(* of process_pdf is one step from its start to its end; w holds, per       *)
(* event, where its task is, res is the work queue of the executor.         *)

MaxTasks == 5

PoolTasks == 1..MaxTasks

\* How a run of process_pdf ends for the pool: it returns after the move
\* ("Success"), it returns from an except block ("Error"), or an exception
\* leaves it and ends in the Future of the task ("raised", pdf_renamer.py).
RunEnds == {"Success", "Error", "raised"}

\* The tasks a pool thread is busy with.
PoolRunning == {t \in PoolTasks : w[t].pc = "running"}

\* Mutant: a thread whose task raised is lost to the pool.
OccupiedOrRaised ==
    {t \in PoolTasks : w[t].pc = "running" \/ (w[t].pc = "done" /\ w[t].terminal = "raised")}

\* The tasks that hold a thread of the pool.
Occupied == PoolRunning

\* Mutant: a task is taken into the queue only when a thread is free.
SubmitWhenFree(queue, t) == IF FreeSlot(Occupied) THEN Append(queue, t) ELSE queue

\* executor.submit(self.process_pdf, event.src_path): the work queue has no
\* limit.
Submit(queue, t) == Append(queue, t)

PoolInit ==
    /\ variant \in {"app", "cli"}
    /\ indir = {}
    /\ outdir = <<>>
    /\ w = [t \in PoolTasks |-> [pc |-> "new", terminal |-> "", runs |-> 0]]
    /\ processed_files = <<>>
    /\ tmpfiles = {}
    /\ arg = <<>>
    /\ outcome = "unset"
    /\ res = <<>>
    /\ phase = "in"
    /\ svc = InitService
    /\ upd = <<>>

\* on_created for the t-th creation event of a PDF: the task is submitted.
EventArrives(t) ==
    /\ w[t].pc = "new"
    /\ \A u \in PoolTasks : u < t => w[u].pc # "new"
    /\ svc.observer[1] = "running"
    /\ w' = [w EXCEPT ![t].pc = "queued"]
    /\ res' = Submit(res, t)
    /\ UNCHANGED <<variant, indir, outdir, processed_files, tmpfiles, arg, outcome, phase, svcVars>>

\* A free pool thread takes the first task of the queue and calls process_pdf.
TakeNext ==
    /\ res # <<>>
    /\ FreeSlot(Occupied)
    /\ w' = [w EXCEPT ![Head(res)].pc = "running", ![Head(res)].runs = @ + 1]
    /\ res' = Tail(res)
    /\ UNCHANGED <<variant, indir, outdir, processed_files, tmpfiles, arg, outcome, phase, svcVars>>

\* process_pdf ends; the thread goes back to the queue.
RunOver(t) ==
    /\ w[t].pc = "running"
    /\ \E how \in RunEnds :
          /\ how = "raised" => variant = "cli"
          /\ w' = [w EXCEPT ![t].pc = "done", ![t].terminal = how]
    /\ UNCHANGED <<variant, indir, outdir, processed_files, tmpfiles, textVars, svcVars>>

\* The monitor thread leaves its loop: observer.stop(), observer.join().
StopWatching ==
    /\ svc.thread[1] = "loop"
    /\ SetService([monitoring_active |-> FALSE,
                   observer |-> [svc.observer EXCEPT ![1] = "joined"],
                   thread   |-> [svc.thread EXCEPT ![1] = "shutdown"]])
    /\ UNCHANGED <<pipeVars, textVars, upd>>

\* executor.shutdown(wait=True) is called.
ShutdownPool ==
    /\ svc.thread[1] = "shutdown"
    /\ SetService([executor |-> [svc.executor EXCEPT ![1] = "shutdown"],
                   thread   |-> [svc.thread EXCEPT ![1] = "wait"]])
    /\ UNCHANGED <<pipeVars, textVars, upd>>

\* executor.shutdown(wait=True) returns: the queue is empty and every pool
\* thread has ended.
PoolDrained ==
    /\ svc.thread[1] = "wait"
    /\ res = <<>>
    /\ Occupied = {}
    /\ SetService([thread |-> [svc.thread EXCEPT ![1] = "done"]])
    /\ UNCHANGED <<pipeVars, textVars, upd>>

PoolNext ==
    \/ TakeNext
    \/ StopWatching
    \/ ShutdownPool
    \/ PoolDrained
    \/ \E t \in PoolTasks :
          \/ EventArrives(t)
          \/ RunOver(t)

PoolSpec == PoolInit /\ [][PoolNext]_vars

\* A free thread takes a queued task, and every call a run makes returns or
\* raises.
PoolLive ==
    /\ PoolSpec
    /\ WF_vars(TakeNext)
    /\ \A t \in PoolTasks : WF_vars(RunOver(t))

----------------------------------------------------------------------------
(* Start harness: one click on Start Monitoring with the settings of the    *)
(* session and the directories that exist, and the monitor thread's first   *)
(* steps.  arg is the settings and the set of existing directories.         *)

DirNames == {<<"/", "i">>, <<"/", "o">>, <<"/", "x">>}

Settings ==
    [openai_api_key : {<<>>, <<"k">>},
     input_dir      : DirNames,
     output_dir     : DirNames,
     dirs           : SUBSET DirNames]

\* os.path.isdir(path)
IsDir(path, dirs) == path \in dirs

\* Mutant: the output directory is not looked at.
CanStartUnchecked(settings) ==
    /\ settings.openai_api_key # <<>>
    /\ IsDir(settings.input_dir, settings.dirs)

\* The three tests of the Start handler all pass.
CanStart(settings) ==
    /\ settings.openai_api_key # <<>>
    /\ IsDir(settings.input_dir, settings.dirs)
    /\ IsDir(settings.output_dir, settings.dirs)

\* The st.error the handler shows: the first test that fails.
StartError(settings) ==
    IF settings.openai_api_key = <<>> THEN "OpenAI API Key is not set"
    ELSE IF ~IsDir(settings.input_dir, settings.dirs) THEN "Input directory not found"
    ELSE "Output directory not found"

\* No service has been started.
StoppedService ==
    [monitoring_active |-> FALSE,
     starts       |-> 0,
     observer_ref |-> 0,
     handler_ref  |-> 0,
     thread   |-> [s \in Services |-> "none"],
     observer |-> [s \in Services |-> "none"],
     executor |-> [s \in Services |-> "none"]] @@ InitService

StartInit ==
    /\ variant = "app"
    /\ indir = Docs
    /\ outdir = <<>>
    /\ w = [d \in Docs |-> InitLocals]
    /\ processed_files = <<>>
    /\ tmpfiles = {}
    /\ arg \in Settings
    /\ outcome = "unset"
    /\ res = <<>>
    /\ phase = "in"
    /\ svc = StoppedService
    /\ upd = <<>>

\* if st.button("Start Monitoring"): the tests, then either an error or the
\* start of the monitor thread.
StartHandler ==
    /\ phase = "in"
    /\ ~svc.monitoring_active
    /\ IF CanStart(arg)
       THEN /\ SetService(StartMonitoring)
            /\ processed_files' = <<>>
            /\ outcome' = "started"
       ELSE /\ outcome' = StartError(arg)
            /\ UNCHANGED <<svc, processed_files>>
    /\ phase' = "out"
    /\ UNCHANGED <<variant, indir, outdir, w, tmpfiles, arg, res, upd>>

StartNext ==
    \/ StartHandler
    \/ \E s \in Services : Setup(s)

StartSpec == StartInit /\ [][StartNext]_vars

----------------------------------------------------------------------------
(* Status harness: the update_status_display calls of the observer thread   *)
(* and of the pool threads of app.py, step by step.  The function has no    *)
(* lock: the loop over the list is one step, the append after a loop that   *)
(* found nothing is another.  arg is the names of the files still to be     *)
(* created, res the tasks submitted and not yet taken by a pool thread.     *)

MaxEvents == 3

MaxThreads == 2

Dispatcher == 0

PoolThreads == 1..MaxThreads

Callers == {Dispatcher} \cup PoolThreads

StatusKeys == {OrigName(d) : d \in Docs}

\* A thread outside update_status_display with no report left to make.
Idle == [pc |-> "idle", todo |-> <<>>]

\* The reports of a process_pdf run that places its document.
RunReports(original_filename) ==
    << <<original_filename, <<>>, "Processing...">>,
       <<original_filename, PlainName(<<"a">>), "Success">> >>

StatusInit ==
    /\ variant = "app"
    /\ indir = {}
    /\ outdir = <<>>
    /\ w = <<>>
    /\ processed_files = <<>>
    /\ tmpfiles = {}
    /\ arg \in [1..MaxEvents -> StatusKeys]
    /\ outcome = "unset"
    /\ res = <<>>
    /\ phase = "in"
    /\ svc = InitService
    /\ upd = [t \in Callers |-> Idle]

\* The call returns.  In on_created the submit to the executor follows the
\* report.
CallReturns(t) ==
    /\ upd' = [upd EXCEPT ![t] = [pc |-> "idle", todo |-> Tail(upd[t].todo)]]
    /\ res' = IF t = Dispatcher THEN Append(res, upd[t].todo[1][1]) ELSE res

\* The observer thread enters on_created for the next created file.
FileCreated ==
    /\ upd[Dispatcher] = Idle
    /\ arg # <<>>
    /\ upd' = [upd EXCEPT ![Dispatcher].todo = OnCreatedReports(
                   [is_directory |-> FALSE, src_path |-> Head(arg)])]
    /\ arg' = Tail(arg)
    /\ UNCHANGED <<pipeVars, outcome, res, phase, svc>>

\* A pool thread takes the next task and enters process_pdf.
TakeTask(t) ==
    /\ t \in PoolThreads
    /\ upd[t] = Idle
    /\ res # <<>>
    /\ upd' = [upd EXCEPT ![t].todo = RunReports(Head(res))]
    /\ res' = Tail(res)
    /\ UNCHANGED <<pipeVars, arg, outcome, phase, svc>>

\* The loop of update_status_display over the list: a record with the key
\* is updated in place and the call returns; with no such record the
\* thread goes on to the append.
ScanTable(t) ==
    /\ upd[t].pc = "idle"
    /\ upd[t].todo # <<>>
    /\ LET r == upd[t].todo[1]
       IN  IF \E i \in 1..Len(processed_files) : processed_files[i].orig = r[1]
           THEN /\ processed_files' = UpdateStatusDisplay(processed_files, r[1], r[2], r[3])
                /\ CallReturns(t)
           ELSE /\ upd' = [upd EXCEPT ![t].pc = "append"]
                /\ UNCHANGED <<processed_files, res>>
    /\ UNCHANGED <<variant, indir, outdir, w, tmpfiles, arg, outcome, phase, svc>>

\* processed_files.append of a thread whose loop found no record.
AppendRecord(t) ==
    /\ upd[t].pc = "append"
    /\ LET r == upd[t].todo[1]
       IN  processed_files' =
               Append(processed_files, [orig |-> r[1], new |-> r[2], status |-> r[3]])
    /\ CallReturns(t)
    /\ UNCHANGED <<variant, indir, outdir, w, tmpfiles, arg, outcome, phase, svc>>

\* Stop Monitoring, then Start Monitoring, which empties the list.  The
\* observer of the stopped service has been joined; its pool threads go on
\* with the tasks the executor was given.
StartAgain ==
    /\ svc.starts < MaxStarts
    /\ upd[Dispatcher] = Idle
    /\ svc' = [svc EXCEPT !.starts = svc.starts + 1]
    /\ processed_files' = <<>>
    /\ UNCHANGED <<variant, indir, outdir, w, tmpfiles, textVars, upd>>

StatusNext ==
    \/ FileCreated
    \/ StartAgain
    \/ \E t \in Callers :
          \/ TakeTask(t)
          \/ ScanTable(t)
          \/ AppendRecord(t)

StatusSpec == StatusInit /\ [][StatusNext]_vars

----------------------------------------------------------------------------
(* Claims.                                                                  *)

Placed(d) == {n \in DOMAIN outdir : outdir[n] = d}

Succeeded(d) == w[d].pc = "done" /\ w[d].terminal = "Success"

\* C1: two documents that get the same sanitized name and are handled by
\* concurrent workers both end up in the output directory, under distinct
\* names, neither replaced by the other.
C1_RacingDocumentsBothKept ==
    \A d, e \in Docs :
        (d # e /\ Succeeded(d) /\ Succeeded(e) /\ w[d].filename = w[e].filename)
            => /\ w[d].new_name # w[e].new_name
               /\ w[d].new_name \in Placed(d)
               /\ w[e].new_name \in Placed(e)

\* C2: a run whose move to the resolved destination failed has made exactly
\* one fallback move; the critical error is its outcome only when that
\* fallback failed too, and then the document is still at its original path.
C2_OneFallbackAfterFailedMove ==
    \A d \in Docs :
        (w[d].pc = "done" /\ w[d].moves # <<>> /\ w[d].moves[1] = "failed")
            => /\ Len(w[d].moves) = 2
               /\ (w[d].moves[2] = "failed" <=> w[d].terminal = "critical")
               /\ (w[d].moves[2] = "failed" => d \in indir)

\* C3: a run whose document opened and parsed returns only after a move has
\* been tried, whatever the classification calls did; if that move
\* succeeded the document is in the output directory and no longer in the
\* input directory at the return.
C3_ParsedDocumentReachesPlacement ==
    [][\A d \in Docs :
          (w[d].pc # "done" /\ w'[d].pc = "done" /\ w'[d].terminal # "Error: open")
              => /\ w'[d].moves # <<>>
                 /\ (w'[d].moves[1] = "moved" => d \notin indir' /\ \E n \in DOMAIN outdir' : outdir'[n] = d)
      ]_vars

\* The status record of document d in app.py's table.
StatusOf(d) == {processed_files[i].status : i \in {j \in 1..Len(processed_files) :
                                                     processed_files[j].orig = OrigName(d)}}

\* C4: a run that failed to open or parse its document has returned with an
\* error report, has made no classification call and no move, and the
\* document is still at its original path.
C4_OpenErrorLeavesDocument ==
    \A d \in Docs :
        w[d].terminal = "Error: open"
            => /\ w[d].pc = "done"
               /\ ~w[d].called
               /\ w[d].moves = <<>>
               /\ d \in indir
               /\ Placed(d) = {}
               /\ (variant = "app" => StatusOf(d) = {"Error: open"})

C4_Witness == \E d \in Docs : w[d].terminal = "Error: open" /\ d \in indir /\ variant = "app"

HasDoubleUnderscore(s) == \E i \in 1..(Len(s) - 1) : s[i] = "_" /\ s[i + 1] = "_"

C6_Idempotent == (phase = "out" /\ outcome = "answer") => Sanitize(res) = res

\* C7: the path a run settles on, when no other run acts between its probes
\* and its move, does not exist in the output directory.
C7_SettledPathIsFree ==
    \A d \in Docs : w[d].pc = "move" => ~PathExists(outdir, w[d].new_name)

C7_Witness ==
    \E d \in Docs :
        /\ w[d].pc = "move"
        /\ w[d].counter > 2
        /\ PathExists(outdir, PlainName(w[d].filename))
        /\ PathExists(outdir, NumberedName(w[d].filename, 1))

\* The n-th name of the series base.pdf, base_1.pdf, base_2.pdf, ...
Candidate(base, n) ==
    IF n = 0 THEN base \o PdfExt ELSE base \o <<"_">> \o Decimal(n) \o PdfExt

\* The first name of the series that is not in dir.
FirstFree(base, dir) ==
    Candidate(base, Min({n \in 0..Cardinality(DOMAIN dir) : Candidate(base, n) \notin DOMAIN dir}))

\* C8: runs made one after the other settle on base.pdf, else on the
\* numbered name with the least counter from 1 on that is free; of two runs
\* that placed the same base name the later one used the larger counter.
C8_CountersIncrease ==
    /\ \A d \in Docs : w[d].pc = "move" => w[d].new_name = FirstFree(w[d].filename, outdir)
    /\ \A d, e \in Docs :
          (d < e /\ Succeeded(d) /\ Succeeded(e) /\ w[d].filename = w[e].filename)
              => w[d].counter < w[e].counter

C8_Witness ==
    /\ NDocs >= 2
    /\ Succeeded(1) /\ Succeeded(2)
    /\ w[1].new_name = Candidate(<<"a">>, 1)
    /\ w[2].new_name = Candidate(<<"a">>, 2)
    /\ Placed(0) = {Candidate(<<"a">>, 0)}
    /\ Placed(1) = {Candidate(<<"a">>, 1)}
    /\ Placed(2) = {Candidate(<<"a">>, 2)}

\* C9: the file name a run moves its document to, numbered suffix and
\* extension included, is at most 240 characters long.
C9_NameWithinLimit ==
    \A d \in Docs :
        (w[d].pc = "move" \/ Succeeded(d)) => Len(w[d].new_name) <= MaxFileLen

C9_Witness ==
    \E d \in Docs :
        /\ Succeeded(d)
        /\ Len(w[d].filename) = MaxNameLen
        /\ w[d].counter > 1
        /\ w[d].new_name \in Placed(d)

\* C10: every record of the status table is keyed by the original file name
\* of a document.
C10_KeyedByOriginalName ==
    \A i \in 1..Len(processed_files) : processed_files[i].orig \in {OrigName(d) : d \in Docs}


\* The status records kept under the original file name of document d.
RecordsOf(d) == {processed_files[i] : i \in {j \in 1..Len(processed_files) :
                                                processed_files[j].orig = OrigName(d)}}

\* C13: in every state where the latest report of a document is Success,
\* the document has left the input directory by a move that did not fail,
\* and the new file name of the report is the name it is stored under.
C13_SuccessAfterMove ==
    \A d \in Docs : \A r \in RecordsOf(d) :
        r.status = "Success"
            => /\ d \notin indir
               /\ w[d].moves = <<"moved">>
               /\ r.new = w[d].new_name
               /\ r.new \in Placed(d)

C13_Witness ==
    \E d \in Docs : \E r \in RecordsOf(d) :
        r.status = "Success" /\ r.new = Candidate(<<"a">>, 1) /\ r.new \in Placed(d)

\* C16: a run in which both the image call and the naming call raised a
\* service error goes on to its move, and the base name it moves the
\* document under is the label the sanitizer gives for an empty answer.
C16_SentinelAfterServiceErrors ==
    [][\A d \in Docs :
          (w[d].pc # "done" /\ w'[d].pc = "done"
             /\ (w[d].api_errors = 2 \/ w'[d].api_errors = 2))
              => /\ w[d].pc \in {"move", "fallback"}
                 /\ w[d].filename = Sanitize(<<>>)
      ]_vars

\* What the image path leaves in vision_result when it gives no label.
FailureMarkers ==
    {"NO_VISION_DATA", "IMAGE_STORE_FAILED", "NO_IMAGE_FOUND",
     "Vision Analysis Failed", "Vision Analysis Failed due to API Error"}

\* C17: when the image path gave no usable label, the naming call is made
\* on the text of the first page (or on the placeholder for an empty page),
\* never on the failure marker.
C17_NamingOnPageText ==
    \A d \in Docs :
        (w[d].pc = "name" /\ w[d].vision \in FailureMarkers)
            => w[d].content \in {"page_text", "no_content"}

\* C18: when a run has returned, no temporary image file of it exists.
C18_NoTempFileLeft == \A d \in Docs : w[d].pc = "done" => d \notin tmpfiles

\* The statuses that say a run is over: Success and the Error reports.
TerminalStatuses ==
    {"Success", "Error: open", "Error: move", "Error: no attribute status_code",
     "Error: Failed to store image"}

\* C20: once the record of a document shows Success or an Error, no later
\* report changes it.
C20_TerminalReportIsLast ==
    [][\A d \in Docs :
          (\E r \in RecordsOf(d) : r.status \in TerminalStatuses)
              => RecordsOf(d)' = RecordsOf(d)
      ]_vars


\* The statuses a run reports last: Success, or Error with the exception.
LastStatuses ==
    {"Success", "Error: open", "Error: move", "Error: no attribute status_code"}

\* C12: every document handed to the pool is in the end dealt with, and in
\* app.py the record of the document then shows Success or an Error.
C12_EveryTaskEnds ==
    \A d \in Docs :
        (w[d].pc = "queued")
            ~> (/\ w[d].pc = "done"
                /\ variant = "app" => \E r \in RecordsOf(d) : r.status \in LastStatuses)

C12_Witness ==
    /\ variant = "app"
    /\ \E d \in Docs :
          /\ Succeeded(d)
          /\ d \notin indir
          /\ w[d].filename = UNKNOWN_DOC
          /\ \E r \in RecordsOf(d) : r.status = "Success"


\* The last four characters of path spell .pdf in any mix of cases.
PdfSuffixAnyCase(path) ==
    LET n == Len(path)
    IN  /\ n >= 4
        /\ path[n - 3] = "."
        /\ path[n - 2] \in {"p", "P"}
        /\ path[n - 1] \in {"d", "D"}
        /\ path[n] \in {"f", "F"}

\* name is what follows the last separator of path.
IsLastComponent(name, path) ==
    /\ EndsWith(path, name)
    /\ \A i \in 1..Len(name) : name[i] # "/"
    /\ Len(name) < Len(path) => path[Len(path) - Len(name)] = "/"

\* C14: on_created submits a task exactly for the events that are not
\* directory events and whose path ends in .pdf in any mix of cases; for
\* these app.py reports the queued status under the file's name, and for
\* every other event nothing is reported and nothing submitted.
C14_SubmitsPdfEventsOnly ==
    phase = "out" /\ outcome = "handled"
        => IF ~arg.is_directory /\ PdfSuffixAnyCase(arg.src_path)
           THEN /\ res = <<arg.src_path>>
                /\ variant = "app"
                      => /\ Len(processed_files) = 1
                         /\ processed_files[1].status = "Queued for processing"
                         /\ IsLastComponent(processed_files[1].orig, arg.src_path)
           ELSE res = <<>> /\ processed_files = <<>>

C14_Witness ==
    /\ phase = "out" /\ outcome = "handled"
    /\ variant = "app"
    /\ res # <<>>
    /\ \E i \in 1..Len(arg.src_path) : arg.src_path[i] = "P"
    /\ arg.src_path[1] = "/"
    /\ Len(processed_files) = 1
    /\ processed_files[1].status = "Queued for processing"


\* width times height of an image, a missing one of the two counting as 0.
Surface(img) ==
    (IF "width" \in DOMAIN img THEN img.width ELSE 0)
        * (IF "height" \in DOMAIN img THEN img.height ELSE 0)

\* C19: of a non-empty list of images the one kept has the largest area of
\* the list and is the first image of that area.
C19_LargestFirstImageKept ==
    (phase = "out" /\ outcome = "picked" /\ arg # <<>>)
        => /\ Len(res) = 1
           /\ res[1] \in 1..Len(arg)
           /\ \A j \in 1..Len(arg) : Surface(arg[j]) <= Surface(arg[res[1]])
           /\ \A j \in 1..(res[1] - 1) : Surface(arg[j]) < Surface(arg[res[1]])

C19_Witness ==
    /\ phase = "out" /\ outcome = "picked"
    /\ Len(arg) = 2
    /\ arg[1] = [image |-> "bytes", width |-> 2, height |-> 1]
    /\ arg[2] = [image |-> "bytes", width |-> 8, height |-> 6]
    /\ res = <<2>>

\* C15: when a service is stopped, its shutdown goes in this order: its
\* observer takes no creation events any more before the workers are waited
\* for, and the observer is let go only once every task given to the
\* service's executor has finished.
C15_StopWaitRelease ==
    \A s \in Services :
        /\ svc.thread[s] \in {"wait", "release", "done"} => svc.observer[s] # "running"
        /\ svc.thread[s] = "done" => Unfinished(s) = {}

\* C11: whatever the order in which the observer thread and the pool
\* threads go through update_status_display, processed_files never holds
\* two records with the same original filename.
C11_OneRecordPerKey ==
    \A i, j \in 1..Len(processed_files) :
        processed_files[i].orig = processed_files[j].orig => i = j

\* The labels the naming code gives when it has no name.
Sentinels == {UNKNOWN_DOC, UNKNOWN_DOC_API_ERROR}

\* C21: a document that was placed under a sentinel name after naming
\* failed does not end with the status an ordinary success ends with: its
\* record tells the failed naming as well as the placement.
C21_DegradedSuccessShown ==
    \A d \in Docs :
        (variant = "app" /\ Succeeded(d) /\ w[d].filename \in Sentinels)
            => \A r \in RecordsOf(d) : r.status # "Success"

\* The nine steps as the specification lists them, applied to the answer in
\* that order and with nothing in between.
NineSteps(answer) ==
    LET untagged == StripTags(answer)
        line     == FirstLine(untagged)
        spaced   == SpacesToUnderscore(line)
        safe     == DropUnsafe(spaced)
        single   == CollapseUnderscores(safe)
        trimmed  == StripUnderscores(single)
    IN  IF line = <<>> THEN UNKNOWN_DOC
        ELSE IF trimmed = <<>> THEN UNKNOWN_DOC
        ELSE IF Len(trimmed) <= MaxNameLen THEN trimmed
        ELSE SubSeq(trimmed, 1, MaxNameLen)

\* C22: for every answer of the classifier the naming code returns what the
\* nine steps of the specification give for that answer.
C22_NineStepsInOrder ==
    (phase = "out" /\ outcome = "answer") => res = NineSteps(arg)

\* The Error statuses of a document's record.
ErrorStatuses ==
    {"Error: open", "Error: move", "Error: no attribute status_code",
     "Error: Failed to store image"}

\* C29: a status record with a new file name is the record of a document
\* that is stored in the output directory under that very name, and a
\* record that shows an Error for a document still in the input directory
\* has no new file name.
C29_NewFilenameMeansMoved ==
    \A d \in Docs : \A r \in RecordsOf(d) :
        /\ r.new # <<>> => r.new \in Placed(d)
        /\ (r.status \in ErrorStatuses /\ d \in indir) => r.new = <<>>

\* C27: at most one observer watches the input directory at a time, and
\* when monitoring has been stopped and every monitor thread has ended, no
\* observer is running and no executor is open.
C27_NothingLeftRunning ==
    /\ Cardinality(Watching) <= 1
    /\ (/\ ~svc.monitoring_active
        /\ \A s \in Services : svc.thread[s] \in {"none", "done", "failed"})
           => /\ Watching = {}
              /\ \A s \in Services : svc.executor[s] # "open"

\* C28: the fallback move of pdf_renamer.py leaves every file that is in
\* the output directory as it is.
C28_FallbackKeepsFiles ==
    [][\A d \in Docs :
          w[d].pc = "fallback"
              => \A n \in DOMAIN outdir : n \in DOMAIN outdir' /\ outdir'[n] = outdir[n]
      ]_vars

\* The settings pass what the specification asks of a start: a key, and
\* both directories existing.
ValidSettings(settings) ==
    /\ Len(settings.openai_api_key) > 0
    /\ settings.input_dir \in settings.dirs
    /\ settings.output_dir \in settings.dirs

\* Nothing of a service exists: no flag, no monitor thread, no observer, no
\* handler with its executor.
NothingStarted ==
    /\ ~svc.monitoring_active
    /\ svc.observer_ref = 0 /\ svc.handler_ref = 0
    /\ \A s \in Services :
          svc.thread[s] = "none" /\ svc.observer[s] = "none" /\ svc.executor[s] = "none"

\* C26: a click on Start makes monitoring active only with an API key and
\* both directories existing; with anything else an error is shown and, then
\* and ever after, monitoring is not active and no monitor thread, observer
\* or handler exists.
C26_StartOnlyWhenConfigured ==
    /\ ~NothingStarted => ValidSettings(arg)
    /\ (phase = "out" /\ ~ValidSettings(arg))
          => /\ outcome \in {"OpenAI API Key is not set", "Input directory not found",
                             "Output directory not found"}
             /\ NothingStarted

C26_Witness ==
    /\ phase = "out"
    /\ arg.openai_api_key # <<>>
    /\ arg.input_dir \in arg.dirs
    /\ arg.output_dir \notin arg.dirs
    /\ outcome = "Output directory not found"
    /\ NothingStarted

\* C23: never more than four runs of process_pdf of the handler are under
\* way at once, however many creation events have arrived.
C23_AtMostFourRuns ==
    Cardinality({t \in PoolTasks : w[t].pc = "running"}) <= 4

C23_Witness ==
    /\ Cardinality({t \in PoolTasks : w[t].pc = "running"}) = 4
    /\ \E t \in PoolTasks : w[t].pc = "queued"

\* How often task t stands in the work queue.
TimesQueued(t) == Cardinality({i \in 1..Len(res) : res[i] = t})

\* C24: on_created can always go through for the next creation event while
\* the observer runs, whatever the pool is busy with, and leaves the task in
\* the queue; every event taken has at most one run of process_pdf, exactly
\* one once it has left the queue, and when the shutdown of the executor
\* has returned every event taken has had its run.
C24_EveryEventRunsOnce ==
    /\ \A t \in PoolTasks :
          (/\ w[t].pc = "new"
           /\ \A u \in PoolTasks : u < t => w[u].pc # "new"
           /\ svc.observer[1] = "running")
              => ENABLED EventArrives(t)
    /\ \A t \in PoolTasks :
          /\ TimesQueued(t) = (IF w[t].pc = "queued" THEN 1 ELSE 0)
          /\ w[t].runs = (IF w[t].pc \in {"running", "done"} THEN 1 ELSE 0)
    /\ svc.thread[1] = "done" => \A t \in PoolTasks : w[t].pc \in {"new", "done"}

C24_Witness ==
    /\ Cardinality({t \in PoolTasks : w[t].pc = "running"}) = 4
    /\ \E t \in PoolTasks : w[t].pc = "queued" /\ TimesQueued(t) = 1
    /\ svc.thread[1] = "wait"

\* A run that ended in an error: it returned from an except block, or an
\* exception left it.
EndedInError(t) == w[t].pc = "done" /\ w[t].terminal \in {"Error", "raised"}

\* C25: whatever runs have ended in an error, every task that is queued or
\* under way still comes to its end, so the pool goes on taking tasks.
C25_ErrorsStayInTheirRun ==
    \A t \in PoolTasks :
        (w[t].pc \in {"queued", "running"}) ~> (w[t].pc = "done")

C25_Witness ==
    /\ Cardinality({t \in PoolTasks : EndedInError(t)}) >= 4
    /\ \E t \in PoolTasks :
          /\ w[t].pc = "done" /\ w[t].terminal = "Success"
          /\ \A u \in PoolTasks : u < t => EndedInError(u)

\* The place of a status in the life of a document: queued, processing, a
\* report of an issue met on the way, or a report that the run is over.
LifecycleRank(status) ==
    CASE status = "Queued for processing" -> 0
      [] status = "Processing..."         -> 1
      [] status \in TerminalStatuses      -> 3
      [] OTHER                            -> 2

\* C30: the record of a document begins with the queued report, and every
\* later report for it stands later in the life of the document than the one
\* before: processing after queued, issue reports after processing, the
\* Success or Error report after them, and nothing after that.
C30_ReportsInLifecycleOrder ==
    [][\A d \in Docs :
          /\ (RecordsOf(d) = {} /\ RecordsOf(d)' # {})
                => \A r \in RecordsOf(d)' : r.status = "Queued for processing"
          /\ \A r \in RecordsOf(d) : \A r2 \in RecordsOf(d)' :
                r2.status # r.status
                    => \/ LifecycleRank(r.status) < LifecycleRank(r2.status)
                       \/ LifecycleRank(r.status) = 2 /\ LifecycleRank(r2.status) = 2
      ]_vars

====
